---- MODULE Spec2Model ----
(***************************************************************************)
(* Model of scripts/report.py of the coordinator repository: the address   *)
(* helpers (check_key, byte_to_base58, key_to_p2pkh), calculate_fees and    *)
(* the module-level reporting pipeline (getrequest, fee calculation, bid    *)
(* mapping, getrequestresponses, response aggregation, report loop).        *)
(*                                                                          *)
(* Python values are represented as follows.                                *)
(*   bytes        a sequence of integers 0..255                             *)
(*   hex string   a sequence of character codes: 0..15 is the hex digit of  *)
(*                that value, any other code a character that is no digit   *)
(*   base58 text  a sequence of one-character strings                       *)
(*   a Python int of unbounded size (the value of byte_to_base58) is the    *)
(*                sequence of its base-16 digits, most significant first    *)
(*   a float      an exact rational [num, den] in lowest terms              *)
(*   a dict       the sequence of its <<key, value>> items in insertion     *)
(*                order                                                     *)
(*   a raised exception is a record [ok |-> FALSE, err |-> name]            *)
(***************************************************************************)
EXTENDS Integers, Sequences, FiniteSets, TLC

(***************************************************************************)
(* Bytes and hex strings (report.py lines 27-31).                           *)
(***************************************************************************)
HexDigit == 0..15

\* The sequence with the elements of f, f a function on 1..n.
AsSeq(f) == f \o <<>>

bytes_to_hex_str(byte_str) ==
    AsSeq([i \in 1..(2 * Len(byte_str)) |->
              IF i % 2 = 1 THEN byte_str[(i + 1) \div 2] \div 16
                           ELSE byte_str[i \div 2] % 16])

IsHexStr(hex_str) ==
    /\ Len(hex_str) % 2 = 0
    /\ \A i \in 1..Len(hex_str) : hex_str[i] \in HexDigit

\* unhexlify: the bytes of a well-formed hex string, binascii.Error otherwise.
hex_str_to_bytes(hex_str) ==
    IF IsHexStr(hex_str)
    THEN [ok |-> TRUE,
          val |-> AsSeq([i \in 1..(Len(hex_str) \div 2) |->
                            16 * hex_str[2 * i - 1] + hex_str[2 * i]])]
    ELSE [ok |-> FALSE, err |-> "binascii.Error"]

Reverse(s) == AsSeq([i \in 1..Len(s) |-> s[Len(s) + 1 - i]])

(***************************************************************************)
(* hashlib's digests.  The library is not part of the repository: each      *)
(* digest is a fixed deterministic function of the whole input with the     *)
(* library's output length (32 bytes for SHA-256, 20 for RIPEMD-160).       *)
(***************************************************************************)
Sha256Len == 32

Ripemd160Len == 20

\* A checksum of s[lo..hi] in which every byte counts with its position.
RECURSIVE Mix(_, _, _)
Mix(s, lo, hi) ==
    IF lo > hi THEN 0
    ELSE IF lo = hi THEN (s[lo] * ((lo % 13) + 1) * ((lo % 7) + 3) + lo) % 65521
    ELSE LET mid == (lo + hi) \div 2
         IN  (Mix(s, lo, mid) + Mix(s, mid + 1, hi)) % 65521

Digest(h, salt, n) ==
    AsSeq([i \in 1..n |-> (h * (2 * i + 1) + (h \div 256) * i * i + salt * i) % 256])

sha256(s) == Digest((Mix(s, 1, Len(s)) + Len(s) + 1) % 65521, 31, Sha256Len)

ripemd160(s) == Digest((Mix(s, 1, Len(s)) + 7 * Len(s) + 2) % 65521, 17, Ripemd160Len)

hash160(s) == ripemd160(sha256(s))

\* sha256d.digest()[::-1]: the double digest, byte-reversed.
hash256(byte_str) == Reverse(sha256(sha256(byte_str)))

(***************************************************************************)
(* byte_to_base58 (report.py lines 33-48).                                  *)
(***************************************************************************)
chars ==
    << "1", "2", "3", "4", "5", "6", "7", "8", "9",
       "A", "B", "C", "D", "E", "F", "G", "H", "J", "K", "L", "M", "N",
       "P", "Q", "R", "S", "T", "U", "V", "W", "X", "Y", "Z",
       "a", "b", "c", "d", "e", "f", "g", "h", "i", "j", "k", "m",
       "n", "o", "p", "q", "r", "s", "t", "u", "v", "w", "x", "y", "z" >>

Base == 58

ChecksumHexLen == 8

\* int('0x'+str, 0) for an even number of hex digits: the value as its base-256
\* digits, most significant first.
IntFromHex(str) == hex_str_to_bytes(str).val

\* value > 0
IsPositive(value) == \E i \in 1..Len(value) : value[i] # 0

\* Long division by 58: the pair (value // 58, value % 58).
RECURSIVE DivMod(_, _, _, _)
DivMod(value, i, quot, rem) ==
    IF i > Len(value) THEN [q |-> quot, r |-> rem]
    ELSE LET cur == rem * 256 + value[i]
         IN  DivMod(value, i + 1, Append(quot, cur \div Base), cur % Base)

\* while value > 0: result = chars[value % 58] + result; value //= 58
RECURSIVE EncodeValue(_, _)
EncodeValue(value, result) ==
    IF ~IsPositive(value) THEN result
    ELSE LET dm == DivMod(value, 1, <<>>, 0)
         IN  EncodeValue(dm.q, <<chars[dm.r + 1]>> \o result)

\* while (str[:2] == '00'): result = chars[0] + result; str = str[2:]
RECURSIVE PadLeadingZeros(_, _)
PadLeadingZeros(str, result) ==
    IF Len(str) >= 2 /\ str[1] = 0 /\ str[2] = 0
    THEN PadLeadingZeros(SubSeq(str, 3, Len(str)), <<chars[1]>> \o result)
    ELSE result

\* chr(version).encode('latin-1')
VersionBytes(version) == <<version>>

\* checksum[:8] of line 40
ChecksumOf(str) ==
    SubSeq(bytes_to_hex_str(hash256(hex_str_to_bytes(str).val)), 1, ChecksumHexLen)

byte_to_base58(b, version) ==
    LET str0 == bytes_to_hex_str(VersionBytes(version)) \o bytes_to_hex_str(b)
        str  == str0 \o ChecksumOf(str0)
    IN  PadLeadingZeros(str, EncodeValue(IntFromHex(str), <<>>))

(***************************************************************************)
(* check_key and key_to_p2pkh (report.py lines 50-59).  A key is a Python   *)
(* value: [type |-> "str" | "bytes" | another type name, val |-> ...], val  *)
(* the characters of a str and the items of any other type.                 *)
(***************************************************************************)
CompressedLen == 33

UncompressedLen == 65

\* Faulty variant of ValidKeyLen: every length from 33 to 65 passes.
ValidKeyLenRange(n) == n >= CompressedLen /\ n <= UncompressedLen

\* len(key) == 33 or len(key) == 65
ValidKeyLen(n) == n = CompressedLen \/ n = UncompressedLen

check_key(key) ==
    LET conv == IF key.type = "str" THEN hex_str_to_bytes(key.val)
                ELSE [ok |-> TRUE, val |-> key.val]
        type == IF key.type = "str" THEN "bytes" ELSE key.type
    IN  IF ~conv.ok THEN conv
        ELSE IF type = "bytes" /\ ValidKeyLen(Len(conv.val))
             THEN [ok |-> TRUE, val |-> conv.val]
             ELSE [ok |-> FALSE, err |-> "AssertionError"]

key_to_p2pkh(key, version) ==
    LET checked == check_key(key)
    IN  IF ~checked.ok THEN checked
        ELSE [ok |-> TRUE, val |-> byte_to_base58(hash160(checked.val), version)]

(***************************************************************************)
(* Exact rationals for Python's float arithmetic.                           *)
(***************************************************************************)
RECURSIVE GCD(_, _)
GCD(a, b) == IF b = 0 THEN a ELSE GCD(b, a % b)

Abs(n) == IF n < 0 THEN -n ELSE n

\* n / d for d # 0, in lowest terms with a positive denominator.
Rat(n, d) ==
    LET g == GCD(Abs(n), Abs(d))
        s == IF d < 0 THEN -1 ELSE 1
    IN  [num |-> (s * n) \div g, den |-> (s * d) \div g]

Zero == Rat(0, 1)

RatAdd(x, y) == Rat(x.num * y.den + y.num * x.den, x.den * y.den)

RatMul(x, y) == Rat(x.num * y.num, x.den * y.den)

RatLeq(x, y) == x.num * y.den <= y.num * x.den

\* x / n for an int n: ZeroDivisionError when n = 0.
TrueDiv(x, n) ==
    IF n = 0 THEN [ok |-> FALSE, err |-> "ZeroDivisionError"]
    ELSE [ok |-> TRUE, val |-> Rat(x.num, x.den * n)]

(***************************************************************************)
(* Python dicts: the sequence of <<key, value>> items in insertion order.   *)
(***************************************************************************)
DictHas(d, key) == \E k \in 1..Len(d) : d[k][1] = key

DictGet(d, key) == d[CHOOSE k \in 1..Len(d) : d[k][1] = key][2]

\* Faulty variant of DictSet: an existing key keeps its first value.
DictSetKeepFirst(d, key, value) ==
    IF \E k \in 1..Len(d) : d[k][1] = key THEN d ELSE Append(d, <<key, value>>)

\* d[key] = value: an existing key keeps its position, a new key goes last.
DictSet(d, key, value) ==
    IF DictHas(d, key)
    THEN [k \in 1..Len(d) |-> IF d[k][1] = key THEN <<key, value>> ELSE d[k]]
    ELSE Append(d, <<key, value>>)

(***************************************************************************)
(* The environment of a run: what the coordinator holds for the request     *)
(* txid (its request, its bids array, its challenge responses) and what the *)
(* node returns for a coinbase transaction.                                 *)
(***************************************************************************)
MaxHeight == 2

MaxBids == 3

MaxChallenges == 3

SeqsUpTo(S, n) == UNION {[1..m -> S] : m \in 0..n}

BytesOf(first, fill, n) == AsSeq([k \in 1..n |-> IF k = 1 THEN first ELSE fill])

StrKey(first, fill, n) ==
    [type |-> "str", val |-> bytes_to_hex_str(BytesOf(first, fill, n))]

BytesKey(first, fill, n) == [type |-> "bytes", val |-> BytesOf(first, fill, n)]

PubKeyCompressed == StrKey(2, 50, 33)

PubKeyUncompressed == StrKey(4, 177, 65)

PubKeyShort == StrKey(2, 7, 32)

Bid(txid, pubkey) == [txid |-> txid, pubkey |-> pubkey]

BidChoices ==
    { Bid("A", PubKeyCompressed), Bid("A", PubKeyUncompressed),
      Bid("B", PubKeyUncompressed), Bid("C", PubKeyCompressed),
      Bid("C", PubKeyShort) }

BaseBids ==
    << Bid("A", PubKeyCompressed), Bid("B", PubKeyUncompressed),
       Bid("C", PubKeyCompressed) >>

\* One challenge record: the JSON array of the bid ids that responded.
RecordChoices ==
    { <<>>, <<"A">>, <<"A", "B">>, <<"B", "D">>, <<"A", "A">> }

BaseResponses == << <<"A", "B">>, <<"A">> >>

FeePercentages == {10, 33}

VoutChoices == { <<>>, <<1000>>, <<250, 50>> }

\* block['tx'] of a block: the coinbase transaction first.
TxLists == { <<"coinbase">>, <<"coinbase", "payment">> }

Request(start, end, pct) ==
    [start_blockheight |-> start, end_blockheight |-> end, fee_percentage |-> pct]

World(req, bidarr, resp) == [request |-> req, bids |-> bidarr, responses |-> resp]

FeeWorlds ==
    { World(Request(s, e, 10), BaseBids, BaseResponses) :
        s \in 0..MaxHeight, e \in 0..MaxHeight }

BidWorlds ==
    { World(Request(0, 0, p), b, BaseResponses) :
        p \in FeePercentages, b \in SeqsUpTo(BidChoices, MaxBids) }

ResponseWorlds ==
    { World(Request(0, 0, 10), BaseBids, r) :
        r \in SeqsUpTo(RecordChoices, MaxChallenges) }

Worlds == FeeWorlds \cup BidWorlds \cup ResponseWorlds

(***************************************************************************)
(* State of a run of report.py.                                             *)
(***************************************************************************)
VARIABLES
    coordinator,        \* what the coordinator holds (never written by the script)
    pc,                 \* position in the script
    request,            \* result["request"], line 86
    bid_list,           \* result["bids"] of the getrequest result
    height,             \* i of calculate_fees' loop
    fee,                \* fee of calculate_fees, then of the module
    fee_error,          \* the except branch of calculate_fees printed its diagnostic
    fee_out,            \* line 100
    bids,               \* the dict of line 106
    fee_per_guard,      \* lines 110-112
    challenge_resps,    \* line 120
    num_of_challenges,  \* line 121
    resps,              \* the dict of line 123
    idx,                \* position of the report loop in bids.items()
    printed,            \* the report blocks printed by line 136, in order
    calls,              \* every call made to the coordinator and to the node, in order
    error,              \* the exception that ended the run, "none" while there is none
    arg_key,            \* an isolated call key_to_p2pkh(arg_key, arg_version):
    arg_version,        \*   its arguments,
    call_pc,            \*   "idle", "called", then "returned" or "raised",
    checked_key,        \*   what check_key returned (key after line 58)
    ret_address         \*   and what the call returned

runVars ==
    << coordinator, pc, request, bid_list, height, fee, fee_error, fee_out, bids,
       fee_per_guard, challenge_resps, num_of_challenges, resps, idx, printed,
       calls, error >>

addrVars == << arg_key, arg_version, call_pc, checked_key, ret_address >>

vars == << runVars, addrVars >>

addr_prefix == 235

\* One call to the coordinator or to the node: the method, the height it was made
\* for (-1 for the coordinator), whether it returned, and for the node the txids it
\* returned (getblock) or was asked for (getrawtransaction) and the output values
\* it returned (getrawtransaction).
Call(method, h, ok, tx, vout) ==
    [method |-> method, height |-> h, ok |-> ok, tx |-> tx, vout |-> vout]

RunInit ==
    /\ coordinator \in Worlds
    /\ pc = "getrequest"
    /\ request = Request(0, 0, 0)
    /\ bid_list = <<>>
    /\ height = 0
    /\ fee = 0
    /\ fee_error = FALSE
    /\ fee_out = Zero
    /\ bids = <<>>
    /\ fee_per_guard = Zero
    /\ challenge_resps = <<>>
    /\ num_of_challenges = 0
    /\ resps = <<>>
    /\ idx = 1
    /\ printed = <<>>
    /\ calls = <<>>
    /\ error = "none"

CallIdle ==
    /\ arg_key = PubKeyCompressed
    /\ arg_version = addr_prefix
    /\ call_pc = "idle"
    /\ checked_key = <<>>
    /\ ret_address = <<>>

Init == RunInit /\ CallIdle

(***************************************************************************)
(* Lines 81-98: getrequest, then the call of calculate_fees.                *)
(***************************************************************************)
GetRequestOk ==
    /\ pc = "getrequest"
    /\ calls' = Append(calls, Call("getrequest", -1, TRUE, <<>>, <<>>))
    /\ request' = coordinator.request
    /\ bid_list' = coordinator.bids
    /\ fee' = 0
    /\ height' = coordinator.request.start_blockheight
    /\ pc' = "calculate_fees"
    /\ UNCHANGED << addrVars, coordinator, fee_error, fee_out, bids, fee_per_guard,
                    challenge_resps, num_of_challenges, resps, idx, printed, error >>

\* requests.post or json.loads raises: nothing catches it.
GetRequestFail ==
    /\ pc = "getrequest"
    /\ calls' = Append(calls, Call("getrequest", -1, FALSE, <<>>, <<>>))
    /\ error' = "getrequest failed"
    /\ pc' = "aborted"
    /\ UNCHANGED << addrVars, coordinator, request, bid_list, height, fee, fee_error, fee_out,
                    bids, fee_per_guard, challenge_resps, num_of_challenges, resps,
                    idx, printed >>

(***************************************************************************)
(* calculate_fees, lines 64-74, one loop iteration per step.                *)
(***************************************************************************)
\* Faulty variant of SumValues: only the first output of the coinbase transaction counts.
FirstValueOnly(vout) == IF vout = <<>> THEN 0 ELSE Head(vout)

\* for out in coinbase_tx['vout']: fee += out['value']
RECURSIVE SumValues(_)
SumValues(vout) == IF vout = <<>> THEN 0 ELSE Head(vout) + SumValues(Tail(vout))

\* block['tx'][0]
CoinbaseOf(block_tx) == block_tx[1]

\* The three node calls of one iteration all succeed: the block holds the
\* transactions txs and its coinbase transaction has the output values vout.
FeeIterate ==
    /\ pc = "calculate_fees"
    /\ height <= request.end_blockheight
    /\ \E txs \in TxLists, vout \in VoutChoices :
         /\ calls' = calls \o
               << Call("getblockhash", height, TRUE, <<>>, <<>>),
                  Call("getblock", height, TRUE, txs, <<>>),
                  Call("getrawtransaction", height, TRUE, <<CoinbaseOf(txs)>>, vout) >>
         /\ fee' = fee + SumValues(vout)
    /\ height' = height + 1
    /\ UNCHANGED << addrVars, coordinator, pc, request, bid_list, fee_error, fee_out, bids,
                    fee_per_guard, challenge_resps, num_of_challenges, resps, idx,
                    printed, error >>

\* The calls of an iteration in which the n-th call raises.
FailingCalls(h, n, txs) ==
    SubSeq(<< Call("getblockhash", h, n > 1, <<>>, <<>>),
              Call("getblock", h, n > 2, IF n > 2 THEN txs ELSE <<>>, <<>>),
              Call("getrawtransaction", h, FALSE, <<CoinbaseOf(txs)>>, <<>>) >>, 1, n)

\* Faulty variant of FeeRpcError: the except branch gives up the sum accumulated so far.
FeeRpcErrorZero ==
    /\ pc = "calculate_fees"
    /\ height <= request.end_blockheight
    /\ \E n \in 1..3, txs \in TxLists :
         calls' = calls \o FailingCalls(height, n, txs)
    /\ fee_error' = TRUE
    /\ fee' = 0
    /\ pc' = "bids"
    /\ UNCHANGED << addrVars, coordinator, request, bid_list, height, fee_out, bids,
                    fee_per_guard, challenge_resps, num_of_challenges, resps, idx,
                    printed, error >>

\* A node call of the iteration raises: except prints and the function returns fee.
FeeRpcError ==
    /\ pc = "calculate_fees"
    /\ height <= request.end_blockheight
    /\ \E n \in 1..3, txs \in TxLists :
         calls' = calls \o FailingCalls(height, n, txs)
    /\ fee_error' = TRUE
    /\ pc' = "bids"
    /\ UNCHANGED << addrVars, coordinator, request, bid_list, height, fee, fee_out, bids,
                    fee_per_guard, challenge_resps, num_of_challenges, resps, idx,
                    printed, error >>

\* The range is exhausted: return fee.
FeeReturn ==
    /\ pc = "calculate_fees"
    /\ height > request.end_blockheight
    /\ pc' = "bids"
    /\ UNCHANGED << addrVars, coordinator, request, bid_list, height, fee, fee_error, fee_out,
                    bids, fee_per_guard, challenge_resps, num_of_challenges, resps,
                    idx, printed, calls, error >>

(***************************************************************************)
(* Lines 99-112: the payout, the bid mapping and the fee per guard.         *)
(***************************************************************************)
\* for bid in result["bids"]: bids[bid['txid']] = bid['pubkey']
RECURSIVE BuildBids(_, _, _)
BuildBids(arr, k, d) ==
    IF k > Len(arr) THEN d
    ELSE BuildBids(arr, k + 1, DictSet(d, arr[k].txid, arr[k].pubkey))

\* fee*fee_percentage/100
FeeOut(f, pct) == Rat(f * pct, 100)

\* Faulty variant of FeePerGuard: the payout is not divided among the bids.
FeePerGuardUndivided(out, d) == IF Len(d) > 0 THEN out ELSE Zero

\* fee_per_guard = 0.0; if len(bids) > 0: fee_per_guard = float(fee_out/len(bids))
FeePerGuard(out, d) ==
    IF Len(d) > 0 THEN TrueDiv(out, Len(d)).val ELSE Zero

CollectBids ==
    /\ pc = "bids"
    /\ fee_out' = FeeOut(fee, request.fee_percentage)
    /\ bids' = BuildBids(bid_list, 1, <<>>)
    /\ fee_per_guard' = FeePerGuard(fee_out', bids')
    /\ pc' = "getrequestresponses"
    /\ UNCHANGED << addrVars, coordinator, request, bid_list, height, fee, fee_error,
                    challenge_resps, num_of_challenges, resps, idx, printed, calls,
                    error >>

(***************************************************************************)
(* Lines 115-129: getrequestresponses and the aggregation into resps.       *)
(***************************************************************************)
GetResponsesOk ==
    /\ pc = "getrequestresponses"
    /\ calls' = Append(calls, Call("getrequestresponses", -1, TRUE, <<>>, <<>>))
    /\ challenge_resps' = coordinator.responses
    /\ num_of_challenges' = Len(coordinator.responses)
    /\ resps' = <<>>
    /\ pc' = "aggregate"
    /\ UNCHANGED << addrVars, coordinator, request, bid_list, height, fee, fee_error, fee_out,
                    bids, fee_per_guard, idx, printed, error >>

\* Faulty variant of GetResponsesFail: the failed call is made again.
GetResponsesRetry ==
    /\ pc = "getrequestresponses"
    /\ calls' = Append(calls, Call("getrequestresponses", -1, FALSE, <<>>, <<>>))
    /\ UNCHANGED << addrVars, coordinator, pc, request, bid_list, height, fee, fee_error,
                    fee_out, bids, fee_per_guard, challenge_resps, num_of_challenges,
                    resps, idx, printed, error >>

\* requests.post or json.loads raises: nothing catches it.
GetResponsesFail ==
    /\ pc = "getrequestresponses"
    /\ calls' = Append(calls, Call("getrequestresponses", -1, FALSE, <<>>, <<>>))
    /\ error' = "getrequestresponses failed"
    /\ pc' = "aborted"
    /\ UNCHANGED << addrVars, coordinator, request, bid_list, height, fee, fee_error, fee_out,
                    bids, fee_per_guard, challenge_resps, num_of_challenges, resps,
                    idx, printed >>

\* Faulty variant of AddResponse: every appearance sets the entry to 1/n.
AddResponseOverwrite(d, bid_resp, n) ==
    LET inc == TrueDiv(Rat(1, 1), n)
    IN  IF ~inc.ok THEN inc ELSE [ok |-> TRUE, val |-> DictSet(d, bid_resp, inc.val)]

\* if bid_resp in resps: resps[bid_resp] += (1/n) else: resps[bid_resp] = (1/n)
AddResponse(d, bid_resp, n) ==
    LET inc == TrueDiv(Rat(1, 1), n)
    IN  IF ~inc.ok THEN inc
        ELSE [ok |-> TRUE,
              val |-> IF DictHas(d, bid_resp)
                      THEN DictSet(d, bid_resp, RatAdd(DictGet(d, bid_resp), inc.val))
                      ELSE DictSet(d, bid_resp, inc.val)]

\* for bid_resp in challenge_resp
RECURSIVE AddRecord(_, _, _, _)
AddRecord(d, challenge_resp, j, n) ==
    IF j > Len(challenge_resp) THEN [ok |-> TRUE, val |-> d]
    ELSE LET r == AddResponse(d, challenge_resp[j], n)
         IN  IF ~r.ok THEN r ELSE AddRecord(r.val, challenge_resp, j + 1, n)

\* for challenge_resp in challenge_resps
RECURSIVE AggregateFrom(_, _, _, _)
AggregateFrom(d, records, c, n) ==
    IF c > Len(records) THEN [ok |-> TRUE, val |-> d]
    ELSE LET r == AddRecord(d, records[c], 1, n)
         IN  IF ~r.ok THEN r ELSE AggregateFrom(r.val, records, c + 1, n)

Aggregate ==
    /\ pc = "aggregate"
    /\ LET r == AggregateFrom(<<>>, challenge_resps, 1, num_of_challenges)
       IN  IF r.ok
           THEN /\ resps' = r.val
                /\ pc' = "report"
                /\ error' = error
           ELSE /\ resps' = resps
                /\ pc' = "aborted"
                /\ error' = r.err
    /\ idx' = 1
    /\ UNCHANGED << addrVars, coordinator, request, bid_list, height, fee, fee_error, fee_out,
                    bids, fee_per_guard, challenge_resps, num_of_challenges, printed,
                    calls >>

(***************************************************************************)
(* Lines 131-138: one report block per item of bids, then "End".            *)
(***************************************************************************)
\* Faulty variant of Performance: a bid without an entry counts as fully responsive.
PerformanceDefaultOne(d, bid) == IF DictHas(d, bid) THEN DictGet(d, bid) ELSE Rat(1, 1)

\* performance = 0.0; if bid in resps: performance = resps[bid]
Performance(d, bid) == IF DictHas(d, bid) THEN DictGet(d, bid) ELSE Zero

\* The arguments of the format call of line 137, the address still to be derived.
Block(bid, pubkey, addr, performance, per_guard) ==
    [bid |-> bid, pubkey |-> pubkey, address |-> addr,
     percent |-> RatMul(Rat(100, 1), performance),
     reward |-> RatMul(per_guard, performance)]

\* key_to_p2pkh(key, addr_prefix) of line 137 for the pubkeys that the bids of the
\* environment carry, computed once.
PubKeys == << PubKeyCompressed, PubKeyUncompressed, PubKeyShort >>

Addresses ==
    << key_to_p2pkh(PubKeyCompressed, addr_prefix),
       key_to_p2pkh(PubKeyUncompressed, addr_prefix),
       key_to_p2pkh(PubKeyShort, addr_prefix) >>

AddressOf(pk) == Addresses[CHOOSE k \in 1..Len(PubKeys) : PubKeys[k] = pk]

ReportBid ==
    /\ pc = "report"
    /\ idx <= Len(bids)
    /\ LET bid  == bids[idx][1]
           pk   == bids[idx][2]
           addr == AddressOf(pk)
       IN  IF addr.ok
           THEN /\ printed' = Append(printed,
                       Block(bid, pk, addr.val, Performance(resps, bid), fee_per_guard))
                /\ idx' = idx + 1
                /\ pc' = pc
                /\ error' = error
           ELSE /\ printed' = printed
                /\ idx' = idx
                /\ pc' = "aborted"
                /\ error' = addr.err
    /\ UNCHANGED << addrVars, coordinator, request, bid_list, height, fee, fee_error, fee_out,
                    bids, fee_per_guard, challenge_resps, num_of_challenges, resps,
                    calls >>

\* print("End")
End ==
    /\ pc = "report"
    /\ idx > Len(bids)
    /\ pc' = "done"
    /\ UNCHANGED << addrVars, coordinator, request, bid_list, height, fee, fee_error, fee_out,
                    bids, fee_per_guard, challenge_resps, num_of_challenges, resps,
                    idx, printed, calls, error >>

Next ==
    \/ GetRequestOk
    \/ GetRequestFail
    \/ FeeIterate
    \/ FeeRpcError
    \/ FeeReturn
    \/ CollectBids
    \/ GetResponsesOk
    \/ GetResponsesFail
    \/ Aggregate
    \/ ReportBid
    \/ End

Spec == Init /\ [][Next]_vars

(***************************************************************************)
(* key_to_p2pkh called on its own, lines 57-59, for keys of every type and  *)
(* length and for several version bytes.                                    *)
(***************************************************************************)
OddHexKey == [type |-> "str", val |-> Append(bytes_to_hex_str(BytesOf(2, 50, 33)), 5)]

\* 66 characters, the last of them no hex digit.
NonHexKey == [type |-> "str", val |-> Append(bytes_to_hex_str(BytesOf(2, 50, 32)), 7) \o <<16>>]

KeyChoices ==
    { StrKey(2, 50, 33), StrKey(3, 7, 33), StrKey(4, 177, 65), StrKey(4, 9, 65),
      BytesKey(2, 50, 33), BytesKey(4, 177, 65), BytesKey(0, 0, 33),
      StrKey(2, 7, 32), StrKey(2, 7, 34), StrKey(4, 7, 64), StrKey(4, 7, 66),
      StrKey(2, 7, 0), StrKey(2, 7, 20),
      BytesKey(2, 7, 32), BytesKey(2, 7, 34), BytesKey(4, 7, 64), BytesKey(4, 7, 66),
      BytesKey(2, 7, 0),
      OddHexKey, NonHexKey,
      [type |-> "bytearray", val |-> BytesOf(2, 50, 33)],
      [type |-> "list", val |-> BytesOf(4, 177, 65)],
      [type |-> "NoneType", val |-> <<>>] }

VersionChoices == {0, 1, 111, 235, 255}

CallInit ==
    /\ arg_key \in KeyChoices
    /\ arg_version \in VersionChoices
    /\ call_pc = "called"
    /\ checked_key = <<>>
    /\ ret_address = <<>>

\* The run variables of a state in which no run takes place.
RunIdle ==
    /\ coordinator = World(Request(0, 0, 0), <<>>, <<>>)
    /\ pc = "idle"
    /\ request = Request(0, 0, 0)
    /\ bid_list = <<>>
    /\ height = 0
    /\ fee = 0
    /\ fee_error = FALSE
    /\ fee_out = Zero
    /\ bids = <<>>
    /\ fee_per_guard = Zero
    /\ challenge_resps = <<>>
    /\ num_of_challenges = 0
    /\ resps = <<>>
    /\ idx = 1
    /\ printed = <<>>
    /\ calls = <<>>
    /\ error = "none"

\* check_key returns: byte_to_base58(hash160(key), version) is returned.
KeyToP2pkhReturn ==
    /\ call_pc = "called"
    /\ check_key(arg_key).ok
    /\ checked_key' = check_key(arg_key).val
    /\ ret_address' = key_to_p2pkh(arg_key, arg_version).val
    /\ call_pc' = "returned"
    /\ UNCHANGED << runVars, arg_key, arg_version >>

\* check_key raises: so does key_to_p2pkh.
KeyToP2pkhRaise ==
    /\ call_pc = "called"
    /\ ~check_key(arg_key).ok
    /\ call_pc' = "raised"
    /\ UNCHANGED << runVars, arg_key, arg_version, checked_key, ret_address >>

AddrInit == RunIdle /\ CallInit

AddrNext == KeyToP2pkhReturn \/ KeyToP2pkhRaise

SpecAddr == AddrInit /\ [][AddrNext]_vars

(***************************************************************************)
(* What the properties below read off a state.                              *)
(***************************************************************************)
IsNodeCall(c) == c.height >= 0

NodeCalls == SelectSeq(calls, IsNodeCall)

\* calculate_fees has returned to line 98.
FeeReturned ==
    \/ pc \in {"bids", "getrequestresponses", "aggregate", "report", "done"}
    \/ pc = "aborted" /\ error # "getrequest failed"

RECURSIVE Total(_)
Total(values) == IF values = <<>> THEN 0 ELSE values[1] + Total(Tail(values))

\* The node calls 3k-2, 3k-1, 3k are the three successful calls for height h, the
\* third one asking for the first transaction of the block the second returned.
FullIteration(k, h) ==
    /\ NodeCalls[3 * k - 2].method = "getblockhash"
    /\ NodeCalls[3 * k - 1].method = "getblock"
    /\ NodeCalls[3 * k].method = "getrawtransaction"
    /\ \A j \in (3 * k - 2)..(3 * k) : NodeCalls[j].height = h /\ NodeCalls[j].ok
    /\ NodeCalls[3 * k].tx = <<NodeCalls[3 * k - 1].tx[1]>>

\* The sum of all output values of the coinbase transactions of the first n
\* iterations.
RECURSIVE CoinbaseSum(_)
CoinbaseSum(n) ==
    IF n = 0 THEN 0 ELSE CoinbaseSum(n - 1) + Total(NodeCalls[3 * n].vout)

RangeLen(start, end) == IF start > end THEN 0 ELSE end - start + 1

\* C7: without an RPC failure calculate_fees returns the sum of all output values
\* of the coinbase transaction (the first transaction of the block) of every height
\* of start..end, having fetched each height exactly once in ascending order; for
\* start > end it returns 0 and makes no RPC call.
C7_FeesSumCoinbaseOutputs ==
    (FeeReturned /\ ~fee_error) =>
        LET start == request.start_blockheight
            n     == RangeLen(start, request.end_blockheight)
        IN  /\ Len(NodeCalls) = 3 * n
            /\ \A k \in 1..n : FullIteration(k, start + k - 1)
            /\ fee = CoinbaseSum(n)
            /\ start > request.end_blockheight => fee = 0 /\ NodeCalls = <<>>

C7_Witness ==
    /\ pc = "done"
    /\ ~fee_error
    /\ request.end_blockheight = request.start_blockheight + 1
    /\ NodeCalls[3].vout = <<250, 50>>
    /\ NodeCalls[5].tx = <<"coinbase", "payment">>
    /\ fee = 1300

\* C1: when a node RPC call made for height H fails, calculate_fees does not raise,
\* makes no RPC call for a height above H, and returns the sum of the coinbase
\* output values of the heights start..H-1.
C1_FeesPartialSumOnRpcFailure ==
    (FeeReturned /\ fee_error) =>
        LET start  == request.start_blockheight
            last   == NodeCalls[Len(NodeCalls)]
            H      == last.height
            n      == H - start
        IN  /\ start <= H /\ H <= request.end_blockheight
            /\ ~last.ok
            /\ Len(NodeCalls) \in (3 * n + 1)..(3 * n + 3)
            /\ \A k \in 1..n : FullIteration(k, start + k - 1)
            /\ \A j \in (3 * n + 1)..Len(NodeCalls) :
                  NodeCalls[j].height = H /\ (NodeCalls[j].ok <=> j < Len(NodeCalls))
            /\ \A j \in 1..Len(NodeCalls) : NodeCalls[j].height <= H
            /\ fee = CoinbaseSum(n)
            /\ pc = "aborted" =>
                  error \in {"getrequestresponses failed", "AssertionError", "binascii.Error"}

C1_Witness ==
    /\ pc = "done"
    /\ fee_error
    /\ fee = 300
    /\ NodeCalls[Len(NodeCalls)].height = request.start_blockheight + 1
    /\ request.end_blockheight = request.start_blockheight + 2

(***************************************************************************)
(* The run as a whole.                                                      *)
(***************************************************************************)
CallsOf(method) == {k \in 1..Len(calls) : calls[k].method = method}

CoordinatorMethods == {"getrequest", "getrequestresponses"}

CoordinatorFailed ==
    \E k \in 1..Len(calls) : calls[k].method \in CoordinatorMethods /\ ~calls[k].ok

KeyErrors == {"AssertionError", "binascii.Error"}

\* C6: each coordinator call is made at most once and never retried; the order is
\* getrequest, node fee calculation, getrequestresponses, report; a failed
\* coordinator call aborts the run with no report block after it; a node RPC
\* failure inside the fee loop does not abort the run.
C6_PipelineOrderAndAborts ==
    /\ \A m \in CoordinatorMethods : Cardinality(CallsOf(m)) <= 1
    /\ \A k \in 1..Len(calls) :
          /\ calls[k].method = "getrequest" => k = 1
          /\ k > 1 => calls[1].method = "getrequest" /\ calls[1].ok
          /\ calls[k].method = "getrequestresponses" => k = Len(calls) /\ FeeReturned
          /\ IsNodeCall(calls[k]) => pc # "getrequest"
    /\ (printed # <<>> \/ pc \in {"aggregate", "report", "done"}) =>
          /\ calls[Len(calls)].method = "getrequestresponses"
          /\ calls[Len(calls)].ok
    /\ CoordinatorFailed => pc = "aborted" /\ printed = <<>>
    /\ fee_error =>
          /\ pc # "calculate_fees"
          /\ pc = "aborted" => error \in KeyErrors \cup {"getrequestresponses failed"}

C6_Witness ==
    /\ pc = "done"
    /\ fee_error
    /\ Len(printed) = 3
    /\ Len(NodeCalls) = 5

(***************************************************************************)
(* The bids and the report.                                                 *)
(***************************************************************************)
BidArray == coordinator.bids

BidTxids == {BidArray[k].txid : k \in 1..Len(BidArray)}

Reported == {printed[k].bid : k \in 1..Len(printed)}

Records == coordinator.responses

\* The positions <<c, j>> at which a bid id appears in the challenge records.
Appearances(id) ==
    UNION {{<<c, j>> : j \in {i \in 1..Len(Records[c]) : Records[c][i] = id}} :
              c \in 1..Len(Records)}

Responders ==
    UNION {{Records[c][j] : j \in 1..Len(Records[c])} : c \in 1..Len(Records)}

\* A pubkey that decodes to 33 or 65 bytes.
IsValidPubkey(k) ==
    \/ k.type = "bytes" /\ Len(k.val) \in {33, 65}
    \/ /\ k.type = "str"
       /\ Len(k.val) \in {66, 130}
       /\ \A i \in 1..Len(k.val) : k.val[i] \in 0..15

\* The bid mapping is built: line 112 is passed.
BidsBuilt == FeeReturned /\ pc # "bids"

\* The aggregation of lines 123-129 is over.
Aggregated ==
    \/ pc \in {"report", "done"}
    \/ pc = "aborted" /\ error \in KeyErrors

\* C2: when both coordinator calls succeed and every pubkey is valid, a report
\* block is emitted for exactly the bid txids of the request's bids array, and a
\* bidder whose id is in no challenge record is reported with performance 0 and
\* reward 0, without any error.
C2_ReportedSetIsBidSet ==
    /\ pc = "done" => Reported = BidTxids
    /\ Reported \subseteq BidTxids
    /\ \A k \in 1..Len(printed) :
          printed[k].bid \notin Responders =>
              printed[k].percent = Zero /\ printed[k].reward = Zero
    /\ pc = "aborted" =>
          \/ CoordinatorFailed
          \/ \E k \in 1..Len(BidArray) : ~IsValidPubkey(BidArray[k].pubkey)

C2_Witness ==
    /\ pc = "done"
    /\ "D" \in Responders
    /\ "C" \notin Responders
    /\ Reported = {"A", "B", "C"}
    /\ printed[3].bid = "C"
    /\ printed[3].percent = Zero
    /\ printed[1].reward # Zero

FirstIndex(txid) ==
    CHOOSE k \in 1..Len(BidArray) :
        BidArray[k].txid = txid /\ \A j \in 1..(k - 1) : BidArray[j].txid # txid

LastIndex(txid) ==
    CHOOSE k \in 1..Len(BidArray) :
        BidArray[k].txid = txid /\ \A j \in (k + 1)..Len(BidArray) : BidArray[j].txid # txid

\* C10: a txid that occurs several times in the bids array has one entry in the
\* mapping, with the pubkey of its last occurrence; each distinct txid is reported
\* exactly once, in the order of first insertion; count(bids) of RewardPerGuard is
\* the number of distinct txids.
C10_DuplicateBidsLastWins ==
    BidsBuilt =>
        /\ {bids[i][1] : i \in 1..Len(bids)} = BidTxids
        /\ Len(bids) = Cardinality(BidTxids)
        /\ \A i, j \in 1..Len(bids) :
              i < j => FirstIndex(bids[i][1]) < FirstIndex(bids[j][1])
        /\ \A i \in 1..Len(bids) : bids[i][2] = BidArray[LastIndex(bids[i][1])].pubkey
        /\ Len(printed) <= Len(bids)
        /\ \A k \in 1..Len(printed) :
              printed[k].bid = bids[k][1] /\ printed[k].pubkey = bids[k][2]
        /\ pc = "done" => Len(printed) = Len(bids)
        /\ Len(bids) > 0 =>
              RatMul(fee_per_guard, Rat(Cardinality(BidTxids), 1)) = fee_out

C10_Witness ==
    /\ pc = "done"
    /\ BidArray = << Bid("A", PubKeyCompressed), Bid("B", PubKeyUncompressed),
                     Bid("A", PubKeyUncompressed) >>
    /\ Len(printed) = 2
    /\ printed[1].bid = "A"
    /\ printed[1].pubkey = PubKeyUncompressed
    /\ printed[2].bid = "B"
    /\ fee = 1000
    /\ fee_per_guard = Rat(50, 1)

\* The ratio of a bid id: its appearances over the number of challenges, 0 when
\* there is no challenge.
Ratio(id) ==
    IF Len(Records) = 0 THEN Zero ELSE Rat(Cardinality(Appearances(id)), Len(Records))

\* C5: fee_per_guard is (fee * fee_percentage / 100) / count(bids) when there is a
\* bid and 0 when there is none, and the reward reported for a bid is fee_per_guard
\* times the performance ratio of the bid.
C5_RewardDistribution ==
    BidsBuilt =>
        LET n == Cardinality(BidTxids)
        IN  /\ n = 0 => fee_per_guard = Zero
            /\ n > 0 => fee_per_guard = Rat(fee * request.fee_percentage, 100 * n)
            /\ \A k \in 1..Len(printed) :
                  printed[k].reward = RatMul(fee_per_guard, Ratio(printed[k].bid))

C5_Witness ==
    /\ pc = "done"
    /\ fee = 1000
    /\ request.fee_percentage = 10
    /\ Len(printed) = 3
    /\ fee_per_guard = Rat(100, 3)
    /\ printed[1].percent = Rat(100, 1) /\ printed[1].reward = Rat(100, 3)
    /\ printed[2].percent = Rat(50, 1) /\ printed[2].reward = Rat(50, 3)
    /\ printed[3].percent = Zero /\ printed[3].reward = Zero

\* C4: the ratio of a bid id is the number of its appearances in the records over
\* num_challenges, the length of the responses; an id in no record has no entry
\* and is reported as 0; with no responses there is no division and no error, and
\* every bidder is reported with ratio 0.
C4_ListProtocolRatios ==
    /\ error # "ZeroDivisionError"
    /\ Aggregated =>
          /\ num_of_challenges = Len(Records)
          /\ \A id \in Responders \cup BidTxids :
                /\ DictHas(resps, id) <=> Appearances(id) # {}
                /\ DictHas(resps, id) => DictGet(resps, id) = Ratio(id)
          /\ \A k \in 1..Len(printed) :
                printed[k].percent = RatMul(Rat(100, 1), Ratio(printed[k].bid))
          /\ Len(Records) = 0 =>
                resps = <<>> /\ \A k \in 1..Len(printed) : printed[k].percent = Zero

C4_Witness ==
    /\ pc = "done"
    /\ Records = << <<"A", "B">>, <<"A">>, <<>> >>
    /\ resps = << <<"A", Rat(2, 3)>>, <<"B", Rat(1, 3)>> >>
    /\ printed[1].percent = Rat(200, 3)
    /\ printed[3].bid = "C" /\ printed[3].percent = Zero

\* C3: for every sequence of challenge records, every entry of resps, and so every
\* reported performance, is a ratio in [0, 1].
C3_RatioWithinUnitInterval ==
    /\ \A k \in 1..Len(resps) :
          RatLeq(Zero, resps[k][2]) /\ RatLeq(resps[k][2], Rat(1, 1))
    /\ \A k \in 1..Len(printed) :
          RatLeq(Zero, printed[k].percent) /\ RatLeq(printed[k].percent, Rat(100, 1))

(***************************************************************************)
(* key_to_p2pkh on its own.                                                 *)
(***************************************************************************)
\* The bytes a pubkey stands for: the bytes themselves, or those its hex digits spell.
DecodedKey(k) ==
    IF k.type = "bytes" THEN k.val
    ELSE AsSeq([i \in 1..(Len(k.val) \div 2) |-> 16 * k.val[2 * i - 1] + k.val[2 * i]])

\* C8: check_key accepts a pubkey given as a hex string or as a byte string, and
\* returns it as bytes, exactly when it decodes to 33 or 65 bytes; any other length
\* or type fails and is never turned into an address.
C8_CheckKeyValidation ==
    /\ call_pc = "returned" =>
          /\ IsValidPubkey(arg_key)
          /\ checked_key = DecodedKey(arg_key)
          /\ ret_address # <<>>
    /\ call_pc = "raised" => ~IsValidPubkey(arg_key) /\ ret_address = <<>>

C8_Witness ==
    /\ call_pc = "raised"
    /\ arg_key.type = "str"
    /\ Len(arg_key.val) = 128
    /\ \A i \in 1..Len(arg_key.val) : arg_key.val[i] \in 0..15

\* Base-58 decoding: each leading "1" is a zero byte, the rest is the number the
\* digits spell, as bytes, most significant first.
DigitOf(c) == (CHOOSE k \in 1..Len(chars) : chars[k] = c) - 1

\* value * 58 + carry for a value held as bytes, from the least significant byte.
RECURSIVE TimesBasePlus(_, _, _, _)
TimesBasePlus(value, i, carry, acc) ==
    IF i = 0 THEN (IF carry = 0 THEN acc ELSE <<carry>> \o acc)
    ELSE LET cur == value[i] * 58 + carry
         IN  TimesBasePlus(value, i - 1, cur \div 256, <<cur % 256>> \o acc)

RECURSIVE NumberOf(_, _, _)
NumberOf(text, k, value) ==
    IF k > Len(text) THEN value
    ELSE NumberOf(text, k + 1, TimesBasePlus(value, Len(value), DigitOf(text[k]), <<>>))

\* How many items equal to x the sequence starts with.
RECURSIVE LeadingCount(_, _, _)
LeadingCount(s, x, k) ==
    IF k <= Len(s) /\ s[k] = x THEN LeadingCount(s, x, k + 1) ELSE k - 1

Base58Decode(text) ==
    AsSeq([i \in 1..LeadingCount(text, "1", 1) |-> 0]) \o NumberOf(text, 1, <<>>)

Alphabet == {chars[k] : k \in 1..Len(chars)}

\* version byte + hash160(pubkey)
Payload == <<arg_version>> \o hash160(checked_key)

\* C9: for a valid pubkey and a version byte, key_to_p2pkh returns a string over
\* the base-58 alphabet that decodes to version byte + hash160(pubkey) + the first
\* 4 bytes of the double SHA-256 of (version byte + hash160), leading zero bytes
\* being encoded as leading "1" characters.
C9_AddressDecodesWithValidChecksum ==
    call_pc = "returned" =>
        LET checksum == SubSeq(sha256(sha256(Payload)), 1, 4)
        IN  /\ \A i \in 1..Len(ret_address) : ret_address[i] \in Alphabet
            /\ Base58Decode(ret_address) = Payload \o checksum
            /\ LeadingCount(ret_address, "1", 1) = LeadingCount(Payload \o checksum, 0, 1)

\* What the code returns instead: the checksum is the last 4 bytes of the double
\* SHA-256, in reverse order.
AddressDecodesWithReversedChecksum ==
    call_pc = "returned" =>
        LET digest   == sha256(sha256(Payload))
            checksum == << digest[32], digest[31], digest[30], digest[29] >>
        IN  /\ \A i \in 1..Len(ret_address) : ret_address[i] \in Alphabet
            /\ Base58Decode(ret_address) = Payload \o checksum
            /\ LeadingCount(ret_address, "1", 1) = LeadingCount(Payload \o checksum, 0, 1)

AddressWitness ==
    /\ call_pc = "returned"
    /\ arg_version = 0
    /\ LeadingCount(ret_address, "1", 1) = 2

====
